---- MODULE Spec2Model ----
(***************************************************************************)
(* Model of QRCodeScanner (src/src/qr_scanner_util.py): the per-image      *)
(* detection pipeline _analyze_qr_code, its two image entry points          *)
(* scan_image_file / scan_image_base64, and the page-by-page document       *)
(* scanner scan_pdf_file.                                                   *)
(*                                                                         *)
(* Text is a sequence of one-character strings.  The decoding engines, the  *)
(* image loader and the page renderer are external: what they return (or    *)
(* that they raise) is an input chosen with \E from the small sets below.   *)
(***************************************************************************)
EXTENDS Integers, Sequences, FiniteSets, TLC

\* ------------------------------------------------------------------ bounds

\* Largest number of values one engine call returns.
MaxInfo == 2
\* Largest page count of a document.
MaxPages == 3
\* Largest configured retry budget (PDF_MAX_RETRY_PAGES).
MaxBudget == 2

\* ------------------------------------------------------- program constants

\* max_dim < 1800: upscale only relatively small images.
UpscaleBelow == 1800
\* max(upscaled.shape[:2]) > 2200: cap the size handed to adaptiveThreshold.
ThreshCeiling == 2200
\* PDF_DPI default.
DefaultBaseDpi == 150
\* PDF_RETRY_DPI default.
DefaultRetryDpi == 200
\* PDF_MAX_SIDE default.
DefaultMaxSide == 1800

\* ------------------------------------------------------------------- text

Letters == {"a", "b", "f", "p", "t"}
DigitChars == {"1", "2"}
SpaceChars == {" "}
\* The characters of  '.,[]()-'  (line 174).
GeometryChars == {".", ",", "[", "]", "(", ")", "-"}
\* The characters of  "()' \""  (lines 166, 225).
StrayChars == {"(", ")", "'", " ", "\""}

\* str.lstrip(chars)
RECURSIVE LStrip(_, _)
LStrip(s, chars) ==
    IF s # <<>> /\ Head(s) \in chars THEN LStrip(Tail(s), chars) ELSE s

\* str.rstrip(chars)
RECURSIVE RStrip(_, _)
RStrip(s, chars) ==
    IF s # <<>> /\ s[Len(s)] \in chars
    THEN RStrip(SubSeq(s, 1, Len(s) - 1), chars)
    ELSE s

\* str.strip(chars); str.strip() is Strip(s, SpaceChars)
Strip(s, chars) == RStrip(LStrip(s, chars), chars)

\* str.startswith(prefix)
StartsWith(s, prefix) ==
    /\ Len(s) >= Len(prefix)
    /\ SubSeq(s, 1, Len(prefix)) = prefix

HttpPrefix == <<"h", "t", "t", "p", ":", "/", "/">>
HttpsPrefix == <<"h", "t", "t", "p", "s", ":", "/", "/">>
FtpPrefix == <<"f", "t", "p", ":", "/", "/">>

\* qr_str.startswith(('http://', 'https://', 'ftp://'))
StartsWithScheme(s) ==
    \/ StartsWith(s, HttpPrefix)
    \/ StartsWith(s, HttpsPrefix)
    \/ StartsWith(s, FtpPrefix)

\* any(c.isalpha() for c in qr_str)
HasLetters(s) == \E i \in 1..Len(s) : s[i] \in Letters

\* all(c.isdigit() or c.isspace() or c in '.,[]()-' for c in s)
AllGeometry(s) ==
    \A i \in 1..Len(s) : s[i] \in DigitChars \cup SpaceChars \cup GeometryChars

\* Coordinate-style text: the two reject tests of lines 171-175.
LooksLikeCoordinates(s) ==
    \/ StartsWith(LStrip(s, SpaceChars), <<"[">>)
    \/ AllGeometry(LStrip(s, SpaceChars))

\* ------------------------------------------------- what an engine returns

\* A value an engine hands back: text, raw bytes (the token "INV" stands for
\* a byte sequence that is not valid UTF-8), None, or some other object.
StrVal(s) == [kind |-> "str", chars |-> s]
BytesVal(s) == [kind |-> "bytes", chars |-> s]
NoneVal == [kind |-> "none"]
OtherVal == [kind |-> "other"]

sAB == <<"a", "b">>
sQuotedAB == <<" ", "'", "a", "b", "'", " ">>
sCoords == <<"[", "[", "1", ",", "2", "]", "]">>
sDigits == <<"1", "2">>
sFtp == <<"f", "t", "p", ":", "/", "/", "1">>
sSpace == <<" ">>
sPaddedAB == <<" ", "a", "b">>
bInvalid == <<"a", "b", "INV">>

IsValidByte(c) == c # "INV"

\* bytes.decode("utf-8", errors="ignore"): invalid bytes are dropped.
DecodeIgnore(b) == SelectSeq(b, IsValidByte)

\* bytes.decode('utf-8') raises UnicodeDecodeError on an invalid byte.
DecodeRaises(b) == \E i \in 1..Len(b) : ~IsValidByte(b[i])

\* All sequences over S of length 0..n.
SeqsUpTo(S, n) == UNION {[1..k -> S] : k \in 0..n}

\* Values cv2.QRCodeDetector.detectAndDecodeMulti puts in decoded_info.
MultiVals ==
    {StrVal(sAB), StrVal(sQuotedAB), StrVal(sCoords), StrVal(sDigits),
     StrVal(sFtp), StrVal(sSpace), BytesVal(bInvalid), OtherVal}

\* decoded_info: None, a sequence (np.ndarray / list / tuple), or one bare
\* value; "raise" is the attempt (rotation or engine call) raising.
MultiOutcomes ==
    {[shape |-> "raise"], [shape |-> "none"]}
    \cup {[shape |-> "list", items |-> l] : l \in SeqsUpTo(MultiVals, MaxInfo)}
    \cup {[shape |-> "scalar", item |-> v] : v \in {StrVal(sAB), StrVal(sCoords)}}

\* The engine answers drawn while a document is scanned (kept small: the
\* document scanner only reads the flags and the count of a page's result).
PdfMultiOutcomes ==
    {[shape |-> "raise"],
     [shape |-> "list", items |-> <<>>],
     [shape |-> "list", items |-> <<StrVal(sAB)>>]}

\* lines 150-155
DecodedList(info) ==
    CASE info.shape = "list" -> info.items
      [] info.shape = "scalar" -> <<info.item>>
      [] OTHER -> <<>>

\* One pass of the loop body of lines 157-180 over one value: acc is
\* [codes |-> qr_codes, seen |-> seen_qr].
AcceptPayload(acc, qr_data) ==
    IF qr_data.kind \notin {"str", "bytes"} THEN acc
    ELSE
      LET decoded == IF qr_data.kind = "bytes"
                     THEN DecodeIgnore(qr_data.chars) ELSE qr_data.chars
          qr_str == Strip(Strip(decoded, SpaceChars), StrayChars)
          qr_str_lstripped == LStrip(qr_str, SpaceChars)
      IN  IF qr_str = <<>> THEN acc
          ELSE IF StartsWith(qr_str_lstripped, <<"[">>) THEN acc
          ELSE IF AllGeometry(qr_str_lstripped) THEN acc
          ELSE IF (HasLetters(qr_str) \/ StartsWithScheme(qr_str))
                  /\ qr_str \notin acc.seen
               THEN [codes |-> Append(acc.codes, qr_str),
                     seen |-> acc.seen \cup {qr_str}]
               ELSE acc

\* for qr_data in decoded_list: ...
RECURSIVE AcceptAll(_, _)
AcceptAll(acc, decoded_list) ==
    IF decoded_list = <<>> THEN acc
    ELSE AcceptAll(AcceptPayload(acc, Head(decoded_list)), Tail(decoded_list))

\* ------------------------------------------------------------------ state

VARIABLES
    entry,          \* the public method the caller invoked
    pc,             \* position of the call
    ret,            \* the value returned to the caller (NoValue before that)
    caller,         \* who runs _analyze_qr_code: "image", "pdf_base", "pdf_retry"
    image,          \* the image under analysis: [h, w, ndim]
    qr_codes,       \* accepted payloads, in order
    seen_qr,        \* set of payloads accepted by the rotation sweeps
    variant,        \* the variant _run_detection is sweeping
    angle,          \* index into angles of the next rotation to try
    cand,           \* index into candidates of the next pyzbar input
    upscaled,       \* shape of the upscaled variant (Unbound before pass 2)
    thresh,         \* shape of the thresholded variant (Unbound before pass 2)
    result,         \* the analysis result of the page (scan_pdf_file's result)
    result_retry,   \* the analysis result of the re-rendered page
    attempts,       \* log of the engine attempts of the current analysis
    threw,          \* some engine attempt of the current analysis raised
    last_raised,    \* the latest engine attempt raised
    gave,           \* some engine attempt of the current analysis returned a value
    load,           \* what the image load of the entry point produced
    config,         \* base_dpi, retry_dpi, max_retry_pages, max_side
    total_pages,
    page_num,
    retry_budget,
    all_results,
    total_qr_found,
    total_scannable,
    rerenders,      \* log of the pages re-rendered at retry_dpi
    renders,        \* log of the pages rendered at base_dpi
    engines,        \* NoValue: every engine answer is a free choice; otherwise
                    \* the engines of the runtime, answering by their input alone
    plan,           \* the calls the caller makes through the one scanner object
    scan,           \* which call of the plan is running
    parked,         \* the suspended call: [scan, frame], or NoValue
    done,           \* done[i]: what call i returned (NoValue before that)
    buffers,        \* the image buffers the caller holds: [x, y]
    overlapped,     \* a call was suspended in mid-run while the other was too
    via,            \* the wrapper scan_pdf_file is called through, or "direct"
    tmp             \* the wrapper's temporary PDF file: "none" before it is
                    \* created, "partial", "written", "unlinked"

anVars == <<image, qr_codes, seen_qr, variant, angle, cand, upscaled, thresh>>
logVars == <<attempts, threw, last_raised, gave>>
pdfVars == <<config, total_pages, page_num, retry_budget, all_results,
             total_qr_found, total_scannable, rerenders, renders>>
resVars == <<result, result_retry>>
\* The state of one call: its arguments, locals and position.
scanVars == <<entry, pc, ret, load, caller, resVars, anVars, logVars, pdfVars>>
\* The runtime and the caller: nothing here is written by a scan.
\* The temporary file of a wrapper of scan_pdf_file.
fileVars == <<via, tmp>>
callsVars == <<engines, plan, scan, parked, done, buffers, overlapped, fileVars>>
vars == <<scanVars, callsVars>>

NoValue == [none |-> TRUE]
Unbound == <<>>

\* angles = [0, 90, 180, 270]
angles == <<0, 90, 180, 270>>

\* dict.get(key, default)
Get(d, key, default) == IF key \in DOMAIN d THEN d[key] ELSE default

Max(a, b) == IF a >= b THEN a ELSE b

\* --------------------------------------------------------------- results

\* Mutant of LoadFailedFile: an unreadable path reported as "no QR code".
LoadFailedFile_NotFound ==
    [success |-> TRUE, qr_found |-> FALSE, scannable |-> FALSE,
     message |-> <<"No QR code detected in the image">>]

\* lines 52-57
LoadFailedFile ==
    [success |-> FALSE, error |-> "Failed to load image from path",
     qr_found |-> FALSE, scannable |-> FALSE]

\* lines 86-91
LoadFailedBase64 ==
    [success |-> FALSE, error |-> "Failed to decode image from base64",
     qr_found |-> FALSE, scannable |-> FALSE]

\* Mutant of ErrorResult: the handler's dictionary without "scannable", as
\* the document scanner's handlers build it.
ErrorResult_NoScannable(e) ==
    [success |-> FALSE, error |-> e, qr_found |-> FALSE]

\* The except handlers of lines 60-67, 94-101 and 307-314.
ErrorResult(e) ==
    [success |-> FALSE, error |-> e, qr_found |-> FALSE, scannable |-> FALSE]

\* lines 281-290
QrRecords(codes) ==
    [i \in 1..Len(codes) |->
        [qr_index |-> i - 1, content |-> codes[i], scannable |-> TRUE,
         valid |-> TRUE, length |-> Len(codes[i])]]

\* Mutant of AssembleResult: qr_count taken from the last record's index.
AssembleResult_CountIsLastIndex(codes) ==
    IF codes # <<>>
    THEN [success |-> TRUE, qr_found |-> TRUE, scannable |-> TRUE,
          qr_count |-> Len(codes) - 1, qr_codes |-> QrRecords(codes),
          message |-> <<"Successfully detected and scanned", Len(codes),
                        "QR code(s)">>]
    ELSE [success |-> TRUE, qr_found |-> FALSE, scannable |-> FALSE,
          message |-> <<"No QR code detected in the image">>]

\* lines 280-305
AssembleResult(codes) ==
    IF codes # <<>>
    THEN [success |-> TRUE, qr_found |-> TRUE, scannable |-> TRUE,
          qr_count |-> Len(codes), qr_codes |-> QrRecords(codes),
          message |-> <<"Successfully detected and scanned", Len(codes),
                        "QR code(s)">>]
    ELSE [success |-> TRUE, qr_found |-> FALSE, scannable |-> FALSE,
          message |-> <<"No QR code detected in the image">>]

\* ------------------------------------------------------ _analyze_qr_code

\* Images handed to _analyze_qr_code: rows, columns, and ndim (2 for a
\* grayscale array, 3 for a colour one).
Images ==
    {[h |-> 1000, w |-> 1000, ndim |-> 3], [h |-> 1000, w |-> 1000, ndim |-> 2],
     [h |-> 1600, w |-> 1200, ndim |-> 3], [h |-> 2000, w |-> 1800, ndim |-> 3],
     [h |-> 2400, w |-> 2000, ndim |-> 3], [h |-> 2500, w |-> 1, ndim |-> 3]}

\* Images cv2.imread and cv2.imdecode(..., IMREAD_COLOR) produce: 3 channels.
LoadedImages ==
    {[h |-> 1000, w |-> 1000, ndim |-> 3], [h |-> 2500, w |-> 1, ndim |-> 3]}

\* cv2.resize(..., fx=1.5, fy=1.5): each side becomes cvRound(side * 1.5),
\* which rounds a half to the even neighbour.
Round15(n) ==
    IF n % 2 = 0 THEN (3 * n) \div 2
    ELSE LET low == (3 * n - 1) \div 2
         IN  IF low % 2 = 0 THEN low ELSE low + 1

\* lines 190-194
UpscaledShape(img) ==
    IF Max(img.h, img.w) < UpscaleBelow
    THEN [h |-> Round15(img.h), w |-> Round15(img.w)]
    ELSE [h |-> img.h, w |-> img.w]

\* lines 197-203: the shape handed to adaptiveThreshold; int() truncates.
ThreshShape(up) ==
    IF Max(up.h, up.w) > ThreshCeiling
    THEN [h |-> (up.h * ThreshCeiling) \div Max(up.h, up.w),
          w |-> (up.w * ThreshCeiling) \div Max(up.h, up.w)]
    ELSE up

\* cv2.resize(src, (new_w, new_h)) raises cv2.error when a side of dsize is 0.
ResizeRaises(shape) == shape.h <= 0 \/ shape.w <= 0

\* Mutant of FreshLocals: the seen set is kept from one call to the next.
FreshLocals_SeenKept == [qr_codes |-> <<>>, seen_qr |-> seen_qr]

\* qr_codes: list[str] = [] and seen_qr: set[str] = set()  (lines 124-125):
\* each call binds new, empty objects.
FreshLocals == [qr_codes |-> <<>>, seen_qr |-> {}]

\* The locals of _analyze_qr_code before line 113 and after it returned.
NoFrame ==
    /\ image' = NoValue
    /\ qr_codes' = FreshLocals.qr_codes
    /\ seen_qr' = FreshLocals.seen_qr
    /\ variant' = "enhanced"
    /\ angle' = 1
    /\ cand' = 1
    /\ upscaled' = Unbound
    /\ thresh' = Unbound

\* The value _analyze_qr_code returns goes to whoever called it:
\* lines 59 and 93 return it, line 392 binds result, line 422 result_retry.
Deliver(res) ==
    /\ NoFrame
    /\ CASE caller = "image" ->
            /\ ret' = res
            /\ pc' = "returned"
            /\ UNCHANGED resVars
      [] caller = "pdf_base" ->
            /\ result' = res
            /\ pc' = "after_base"
            /\ UNCHANGED <<ret, result_retry>>
      [] caller = "pdf_retry" ->
            /\ result_retry' = res
            /\ pc' = "after_retry"
            /\ UNCHANGED <<ret, result>>

\* Entering _analyze_qr_code(img): lines 113-126.
Enter(img, who) ==
    /\ image' = img
    /\ caller' = who
    /\ qr_codes' = FreshLocals.qr_codes
    /\ seen_qr' = FreshLocals.seen_qr
    /\ variant' = "enhanced"
    /\ angle' = 1
    /\ cand' = 1
    /\ upscaled' = Unbound
    /\ thresh' = Unbound
    /\ attempts' = <<>>
    /\ threw' = FALSE
    /\ last_raised' = FALSE
    /\ gave' = FALSE
    /\ pc' = "sweep"

\* The text the symbol printed on an image encodes.
PayloadOf(img) == IF img.h = 1000 THEN sAB ELSE sFtp

\* Engines that answer by their input alone.  An attempt is named as in the
\* attempts log; e.bad are the attempts on which the engine raises, e.hit
\* the attempts on which it decodes the symbol, e.blind the images on which
\* it decodes nothing.
Decodes(e, img, key) == key \in e.hit /\ img \notin e.blind

\* detectAndDecodeMulti(rotated) of line 146 for such engines.
MultiAnswer(e, img, v, a) ==
    IF <<"multi", v, a>> \in e.bad THEN [shape |-> "raise"]
    ELSE IF Decodes(e, img, <<"multi", v, a>>)
         THEN [shape |-> "list",
               items |-> <<StrVal(PayloadOf(img)), StrVal(sQuotedAB)>>]
    ELSE [shape |-> "list", items |-> <<>>]

\* What the attempt of this step may give: any outcome, or the one answer
\* of the runtime's engines.
SweepOutcomes ==
    IF engines # NoValue
    THEN {MultiAnswer(engines, image, variant, angles[angle])}
    ELSE IF entry = "scan_pdf_file" THEN PdfMultiOutcomes ELSE MultiOutcomes

\* Mutant of AfterSweep: the thresholded sweep runs whatever the upscaled
\* sweep accepted.
AfterSweep_ThreshAlways(v, codes) ==
    CASE v = "enhanced" -> "pass2"
      [] v = "upscaled" -> "sweep_thresh"
      [] OTHER -> "single"

\* Mutant of AfterSweep: the test of line 215 inverted.
AfterSweep_ThreshAfterPayload(v, codes) ==
    CASE v = "enhanced" -> "pass2"
      [] v = "upscaled" -> IF codes # <<>> THEN "sweep_thresh" ELSE "single"
      [] OTHER -> "single"

\* Where _run_detection(variant) returns to: lines 185-219.
AfterSweep(v, codes) ==
    CASE v = "enhanced" -> "pass2"
      [] v = "upscaled" -> IF codes = <<>> THEN "sweep_thresh" ELSE "single"
      [] OTHER -> "single"

\* One iteration of the loop of _run_detection (lines 130-182): rotate the
\* variant by angles[angle], run detectAndDecodeMulti, validate what it gave.
RunDetection ==
    /\ pc = "sweep"
    /\ \E info \in SweepOutcomes :
        LET acc == IF info.shape = "raise"
                   THEN [codes |-> qr_codes, seen |-> seen_qr]
                   ELSE AcceptAll([codes |-> qr_codes, seen |-> seen_qr],
                                  DecodedList(info))
            next == IF angle < Len(angles) THEN "sweep"
                    ELSE AfterSweep(variant, acc.codes)
        IN  /\ qr_codes' = acc.codes
            /\ seen_qr' = acc.seen
            /\ threw' = (threw \/ info.shape = "raise")
            /\ last_raised' = (info.shape = "raise")
            /\ gave' = (gave \/ DecodedList(info) # <<>>)
            /\ attempts' = Append(attempts, <<"multi", variant, angles[angle]>>)
            /\ angle' = IF angle < Len(angles) THEN angle + 1 ELSE 1
            /\ variant' = IF next = "sweep_thresh" THEN "thresh" ELSE variant
            /\ pc' = IF next = "sweep_thresh" THEN "sweep" ELSE next
    /\ UNCHANGED <<callsVars, entry, ret, load, caller, resVars, image, cand, upscaled,
                   thresh, pdfVars>>

\* Pass 2 (lines 188-214): build the upscaled and thresholded variants; an
\* exception here is not inside any inner try and reaches line 307.
Pass2 ==
    /\ pc = "pass2"
    /\ IF qr_codes # <<>>
       THEN /\ pc' = "single"
            /\ UNCHANGED <<ret, resVars, anVars>>
       ELSE LET up == UpscaledShape(image)
                th == ThreshShape(up)
            IN  IF Max(up.h, up.w) > ThreshCeiling /\ ResizeRaises(th)
                THEN Deliver(ErrorResult("cv2.error"))
                ELSE /\ upscaled' = up
                     /\ thresh' = th
                     /\ variant' = "upscaled"
                     /\ pc' = "sweep"
                     /\ UNCHANGED <<ret, resVars, image, qr_codes, seen_qr,
                                    angle, cand>>
    /\ UNCHANGED <<callsVars, entry, load, caller, logVars, pdfVars>>

\* str(numpy array of corner points): "[[1. 2.]]" for the points 1, 2.
RECURSIVE NumpyRow(_)
NumpyRow(pts) ==
    IF pts = <<>> THEN <<>>
    ELSE <<Head(pts), ".">> \o (IF Tail(pts) = <<>> THEN <<>> ELSE <<" ">>)
         \o NumpyRow(Tail(pts))

\* str(single_qr) of line 225, for the value bound at line 222.
PyStr(v) ==
    CASE v.kind = "points" -> <<"[", "[">> \o NumpyRow(v.chars) \o <<"]", "]">>
      [] v.kind = "str" -> v.chars
      [] OTHER -> <<"N", "o", "n", "e">>

PointsVal(p) == [kind |-> "points", chars |-> p]

\* cv2.QRCodeDetector.detectAndDecode returns (text, points, straight_qrcode);
\* points is None when no symbol is located.
SingleOutcomes ==
    {[shape |-> "raise"],
     [shape |-> "tuple", text |-> <<>>, points |-> NoneVal],
     [shape |-> "tuple", text |-> <<>>, points |-> PointsVal(<<"1", "2">>)],
     [shape |-> "tuple", text |-> sAB, points |-> PointsVal(<<"1", "2">>)]}

PdfSingleOutcomes ==
    {[shape |-> "raise"],
     [shape |-> "tuple", text |-> <<>>, points |-> NoneVal]}

\* detectAndDecode(enhanced) of line 221 for engines answering by input.
SingleAnswer(e, img) ==
    IF <<"single", "enhanced", 0>> \in e.bad THEN [shape |-> "raise"]
    ELSE IF Decodes(e, img, <<"single", "enhanced", 0>>)
         THEN [shape |-> "tuple", text |-> PayloadOf(img),
               points |-> PointsVal(<<"1", "2">>)]
    ELSE [shape |-> "tuple", text |-> <<>>, points |-> NoneVal]

SingleAnswers ==
    IF engines # NoValue THEN {SingleAnswer(engines, image)}
    ELSE IF entry = "scan_pdf_file" THEN PdfSingleOutcomes ELSE SingleOutcomes

\* result[1] if len(result) > 1 else None   (line 222)
SingleQr(res) == res.points

\* Single detect on the enhanced image (lines 219-229).
SingleDetect ==
    /\ pc = "single"
    /\ IF qr_codes # <<>>
       THEN UNCHANGED <<qr_codes, logVars>>
       ELSE \E res \in SingleAnswers :
              /\ attempts' = Append(attempts, <<"single", "enhanced", 0>>)
              /\ threw' = (threw \/ res.shape = "raise")
              /\ last_raised' = (res.shape = "raise")
              /\ gave' = (gave \/ (res.shape = "tuple"
                                    /\ (res.text # <<>> \/ res.points # NoneVal)))
              /\ IF res.shape = "raise" \/ SingleQr(res).kind = "none"
                 THEN UNCHANGED qr_codes
                 ELSE LET qr_str == Strip(Strip(PyStr(SingleQr(res)), SpaceChars),
                                          StrayChars)
                      IN  qr_codes' = IF qr_str # <<>>
                                      THEN Append(qr_codes, qr_str)
                                      ELSE qr_codes
    /\ pc' = "pyzbar"
    /\ UNCHANGED <<callsVars, entry, ret, load, caller, resVars, image, seen_qr,
                   variant, angle, cand, upscaled, thresh, pdfVars>>

\* What pyzbar.decode returns: objects with a symbol type and the data bytes.
Decoded(t, d) == [type |-> t, data |-> d]

PyzbarVals ==
    {Decoded("QRCODE", sAB), Decoded("QRCODE", sPaddedAB),
     Decoded("QRCODE", sDigits), Decoded("QRCODE", sSpace),
     Decoded("QRCODE", bInvalid), Decoded("EAN13", sDigits)}

PyzbarOutcomes ==
    {[shape |-> "raise"]}
    \cup {[shape |-> "list", items |-> l] : l \in SeqsUpTo(PyzbarVals, MaxInfo)}

PdfPyzbarOutcomes ==
    {[shape |-> "raise"],
     [shape |-> "list", items |-> <<>>],
     [shape |-> "list", items |-> <<Decoded("QRCODE", sAB)>>]}

\* pyzbar.decode(cand) of line 243 for engines answering by input.
PyzbarAnswer(e, img, c) ==
    IF <<"pyzbar", c, 0>> \in e.bad THEN [shape |-> "raise"]
    ELSE IF Decodes(e, img, <<"pyzbar", c, 0>>)
         THEN [shape |-> "list",
               items |-> <<Decoded("QRCODE", PayloadOf(img)),
                           Decoded("EAN13", sDigits)>>]
    ELSE [shape |-> "list", items |-> <<>>]

PyzbarAnswers(c) ==
    IF engines # NoValue THEN {PyzbarAnswer(engines, image, c)}
    ELSE IF entry = "scan_pdf_file" THEN PdfPyzbarOutcomes ELSE PyzbarOutcomes

\* from pyzbar import pyzbar (line 234) can raise ImportError, can succeed.
PyzbarImportFails ==
    IF engines = NoValue THEN TRUE ELSE ~engines.pyzbar_installed
PyzbarImports ==
    IF engines = NoValue THEN TRUE ELSE engines.pyzbar_installed

\* The loop of lines 244-250 over one decode result: the codes appended so
\* far and whether d.data.decode('utf-8') raised (which leaves the loop).
RECURSIVE PyzbarAppend(_, _)
PyzbarAppend(codes, decoded) ==
    IF decoded = <<>> THEN [codes |-> codes, raised |-> FALSE]
    ELSE LET d == Head(decoded)
         IN  IF d.type # "QRCODE" THEN PyzbarAppend(codes, Tail(decoded))
             ELSE IF DecodeRaises(d.data) THEN [codes |-> codes, raised |-> TRUE]
             ELSE LET data == Strip(d.data, SpaceChars)
                  IN  PyzbarAppend(IF data # <<>> THEN Append(codes, data)
                                   ELSE codes,
                                   Tail(decoded))

\* candidates = [enhanced, thresh]   (lines 237-241)
Candidates == IF thresh = Unbound THEN <<"enhanced">> ELSE <<"enhanced", "thresh">>

\* pyzbar fallback (lines 232-254): the import, then pyzbar.decode on the
\* candidate Candidates[cand]; the loop stops at the first candidate that
\* leaves qr_codes non-empty, and any exception ends the whole fallback.
PyzbarFallback ==
    /\ pc = "pyzbar"
    /\ IF qr_codes # <<>>
       THEN /\ pc' = "qreader"
            /\ UNCHANGED <<qr_codes, cand, logVars>>
       ELSE \/ /\ cand = 1
               \* from pyzbar import pyzbar raises ImportError
               /\ PyzbarImportFails
               /\ pc' = "qreader"
               /\ UNCHANGED <<qr_codes, cand, logVars>>
            \/ \E res \in PyzbarAnswers(Candidates[cand]) :
                 LET got == IF res.shape = "raise"
                            THEN [codes |-> qr_codes, raised |-> TRUE]
                            ELSE PyzbarAppend(qr_codes, res.items)
                     given == res.shape = "list" /\ res.items # <<>>
                     more == /\ ~got.raised
                             /\ got.codes = <<>>
                             /\ cand < Len(Candidates)
                 IN  /\ PyzbarImports
                     /\ attempts' = Append(attempts,
                                           <<"pyzbar", Candidates[cand], 0>>)
                     /\ threw' = (threw \/ res.shape = "raise")
                     /\ last_raised' = (res.shape = "raise")
                     /\ gave' = (gave \/ given)
                     /\ qr_codes' = got.codes
                     /\ cand' = IF more THEN cand + 1 ELSE 1
                     /\ pc' = IF more THEN "pyzbar" ELSE "qreader"
    /\ UNCHANGED <<callsVars, entry, ret, load, caller, resVars, image, seen_qr,
                   variant, angle, upscaled, thresh, pdfVars>>

\* What QReader.detect_and_decode returns: a tuple of texts, None for a
\* symbol it located and could not decode.
QReaderVals ==
    {NoneVal, StrVal(sAB), StrVal(sPaddedAB), StrVal(sDigits), StrVal(sSpace),
     StrVal(<<>>)}

QReaderOutcomes ==
    {[shape |-> "unavailable"], [shape |-> "raise"]}
    \cup {[shape |-> "list", items |-> l] : l \in SeqsUpTo(QReaderVals, MaxInfo)}

PdfQReaderOutcomes ==
    {[shape |-> "unavailable"], [shape |-> "raise"],
     [shape |-> "list", items |-> <<>>],
     [shape |-> "list", items |-> <<StrVal(sAB), StrVal(sFtp)>>]}

\* QReader().detect_and_decode(image=color_image) of lines 259-268 for
\* engines answering by input; an absent package answers "unavailable".
QReaderAnswer(e, img) ==
    IF ~e.qreader_installed THEN [shape |-> "unavailable"]
    ELSE IF <<"qreader", "color", 0>> \in e.bad THEN [shape |-> "raise"]
    ELSE IF Decodes(e, img, <<"qreader", "color", 0>>)
         THEN [shape |-> "list", items |-> <<StrVal(PayloadOf(img))>>]
    ELSE [shape |-> "list", items |-> <<>>]

QReaderAnswers ==
    IF engines # NoValue THEN {QReaderAnswer(engines, image)}
    ELSE IF entry = "scan_pdf_file" THEN PdfQReaderOutcomes ELSE QReaderOutcomes

\* lines 270-274
RECURSIVE QReaderAppend(_, _)
QReaderAppend(codes, texts) ==
    IF texts = <<>> THEN codes
    ELSE LET text == Head(texts)
         IN  QReaderAppend(IF text.kind = "str" /\ text.chars # <<>>
                           THEN Append(codes, Strip(text.chars, SpaceChars))
                           ELSE codes,
                           Tail(texts))

\* Mutant of QReaderFallback: the ImportError of an absent package is not
\* caught at line 275 and reaches the handler of line 307.
QReaderFallback_ImportErrorEscapes ==
    /\ pc = "qreader"
    /\ IF qr_codes # <<>>
       THEN /\ pc' = "assemble"
            /\ UNCHANGED <<ret, resVars, anVars, logVars>>
       ELSE \E res \in QReaderAnswers :
              IF res.shape = "unavailable"
              THEN /\ Deliver(ErrorResult("No module named 'qreader'"))
                   /\ UNCHANGED logVars
              ELSE /\ attempts' = Append(attempts, <<"qreader", "color", 0>>)
                   /\ threw' = (threw \/ res.shape = "raise")
                   /\ last_raised' = (res.shape = "raise")
                   /\ gave' = (gave \/ (res.shape = "list" /\ res.items # <<>>))
                   /\ qr_codes' = IF res.shape = "list"
                                  THEN QReaderAppend(qr_codes, res.items)
                                  ELSE qr_codes
                   /\ pc' = "assemble"
                   /\ UNCHANGED <<ret, resVars, image, seen_qr, variant, angle,
                                  cand, upscaled, thresh>>
    /\ UNCHANGED <<callsVars, entry, load, caller, pdfVars>>

\* QReader fallback (lines 257-278); an absent package is an ImportError,
\* which line 275 swallows.
QReaderFallback ==
    /\ pc = "qreader"
    /\ IF qr_codes # <<>>
       THEN UNCHANGED <<qr_codes, logVars>>
       ELSE \E res \in QReaderAnswers :
              /\ attempts' = IF res.shape = "unavailable" THEN attempts
                             ELSE Append(attempts, <<"qreader", "color", 0>>)
              /\ threw' = (threw \/ res.shape = "raise")
              /\ last_raised' = (res.shape = "raise")
              /\ gave' = (gave \/ (res.shape = "list" /\ res.items # <<>>))
              /\ qr_codes' = IF res.shape = "list"
                             THEN QReaderAppend(qr_codes, res.items)
                             ELSE qr_codes
    /\ pc' = "assemble"
    /\ UNCHANGED <<callsVars, entry, ret, load, caller, resVars, image, seen_qr,
                   variant, angle, cand, upscaled, thresh, pdfVars>>

\* "Return results" (lines 279-305).
Assemble ==
    /\ pc = "assemble"
    /\ Deliver(AssembleResult(qr_codes))
    /\ UNCHANGED <<callsVars, entry, load, caller, logVars, pdfVars>>

\* ------------------------------------------------------ image entry points

\* What cv2.imread gives scan_image_file (line 50): None for a path that is
\* no readable image, an exception, or an image.
FileLoads == {[kind |-> "none"], [kind |-> "raise"]}
             \cup {[kind |-> "image", img |-> i] : i \in LoadedImages}

\* scan_image_file (lines 38-67)
ScanImageFile ==
    /\ pc = "start"
    /\ entry = "scan_image_file"
    /\ \E ld \in FileLoads :
        /\ load' = ld.kind
        /\ CASE ld.kind = "none" ->
                  /\ ret' = LoadFailedFile
                  /\ pc' = "returned"
                  /\ UNCHANGED <<caller, anVars, logVars>>
            [] ld.kind = "raise" ->
                  /\ ret' = ErrorResult("exception")
                  /\ pc' = "returned"
                  /\ UNCHANGED <<caller, anVars, logVars>>
            [] OTHER ->
                  /\ Enter(ld.img, "image")
                  /\ UNCHANGED ret
    /\ UNCHANGED <<callsVars, entry, resVars, pdfVars>>

\* What lines 81-83 give scan_image_base64: base64.b64decode raising, cv2.imdecode
\* returning None or raising (an empty buffer), or an image.
Base64Loads == {[kind |-> "b64error"], [kind |-> "none"], [kind |-> "raise"]}
               \cup {[kind |-> "image", img |-> i] : i \in LoadedImages}

\* scan_image_base64 (lines 69-101)
ScanImageBase64 ==
    /\ pc = "start"
    /\ entry = "scan_image_base64"
    /\ \E ld \in Base64Loads :
        /\ load' = ld.kind
        /\ CASE ld.kind = "none" ->
                  /\ ret' = LoadFailedBase64
                  /\ pc' = "returned"
                  /\ UNCHANGED <<caller, anVars, logVars>>
            [] ld.kind \in {"b64error", "raise"} ->
                  /\ ret' = ErrorResult("exception")
                  /\ pc' = "returned"
                  /\ UNCHANGED <<caller, anVars, logVars>>
            [] OTHER ->
                  /\ Enter(ld.img, "image")
                  /\ UNCHANGED ret
    /\ UNCHANGED <<callsVars, entry, resVars, pdfVars>>

\* The buffer call i of the plan is made on: the calls of a plan alternate
\* between the caller's two buffers, except that "twice" and "absent" make
\* every call on the same one.
BufferOf(i) ==
    IF plan = "together" /\ i % 2 = 0 THEN buffers.y ELSE buffers.x

\* A buffer that holds a document (a PDF file) rather than an image.
IsDocument(b) == "pages" \in DOMAIN b

\* The image argument of this call.
CallImages == IF engines # NoValue THEN {BufferOf(scan)} ELSE Images

\* A direct call of _analyze_qr_code(image) on a loaded image (line 103).
AnalyzeQrCode ==
    /\ pc = "start"
    /\ entry = "_analyze_qr_code"
    /\ \E img \in CallImages : Enter(img, "image")
    /\ load' = "image"
    /\ UNCHANGED <<callsVars, entry, ret, resVars, pdfVars>>

\* ---------------------------------------------------------- scan_pdf_file

\* The environment settings read at lines 334-336 and 380.
Configs ==
    {[base_dpi |-> DefaultBaseDpi, retry_dpi |-> DefaultRetryDpi,
      max_retry_pages |-> b, max_side |-> DefaultMaxSide] : b \in 0..MaxBudget}
    \cup {[base_dpi |-> DefaultBaseDpi, retry_dpi |-> DefaultRetryDpi,
           max_retry_pages |-> MaxBudget, max_side |-> 3000],
          [base_dpi |-> DefaultRetryDpi, retry_dpi |-> DefaultRetryDpi,
           max_retry_pages |-> MaxBudget, max_side |-> DefaultMaxSide]}

\* The settings of the runtime the plans run in.
CallConfigs ==
    IF engines # NoValue
    THEN {[base_dpi |-> DefaultBaseDpi, retry_dpi |-> DefaultRetryDpi,
           max_retry_pages |-> 1, max_side |-> DefaultMaxSide]}
    ELSE Configs

\* int(info.get("Pages", 0)) of line 339: any count, or the document's own.
PageCounts ==
    IF engines # NoValue THEN {BufferOf(scan).pages} ELSE 0..MaxPages

\* What convert_from_path gives for one page: an exception, an empty list,
\* or one PIL image of size (w, h); convert_ok is whether image.convert("L")
\* succeeds (lines 372-375, 406-409).
PageRenders ==
    {[kind |-> "raise"], [kind |-> "empty"],
     [kind |-> "image", w |-> 1000, h |-> 800, convert_ok |-> TRUE],
     [kind |-> "image", w |-> 1000, h |-> 800, convert_ok |-> FALSE],
     [kind |-> "image", w |-> 2500, h |-> 1, convert_ok |-> TRUE]}

\* The page a renderer that answers by its input alone draws at dpi: the
\* pixel size of a page grows with the resolution.
PageImage(dpi) ==
    [kind |-> "image", w |-> (20 * dpi) \div 3, h |-> (16 * dpi) \div 3,
     convert_ok |-> TRUE]

\* What convert_from_path(pdf_path, dpi=dpi, ...) may give in this step.
Renderings(dpi) == IF engines # NoValue THEN {PageImage(dpi)} ELSE PageRenders

\* lines 371-389 and 406-421: grayscale, downscale to max_side, np.array.
PageArray(r, max_side) ==
    LET big == Max(r.w, r.h) > max_side
        new_w == IF big THEN Max(1, (r.w * max_side) \div Max(r.w, r.h)) ELSE r.w
        new_h == IF big THEN Max(1, (r.h * max_side) \div Max(r.w, r.h)) ELSE r.h
    IN  [h |-> new_h, w |-> new_w, ndim |-> IF r.convert_ok THEN 2 ELSE 3]

\* Mutant of PdfErrorResult: the failure reported as an empty document.
PdfErrorResult_EmptyDocument(e) ==
    [success |-> TRUE, total_pages |-> 0, pages_with_qr |-> 0, pages |-> <<>>,
     qr_found |-> FALSE, message |-> e]

\* The except handlers of lines 455-467.
PdfErrorResult(e) == [success |-> FALSE, error |-> e, qr_found |-> FALSE]

\* lines 359-365
RenderFailed(n) ==
    [success |-> TRUE, qr_found |-> FALSE, scannable |-> FALSE,
     message |-> <<"Failed to render PDF page">>, page_number |-> n]

\* Mutant of WithPageNumber: the loop index counted from 0.
WithPageNumber_ZeroBased(res, n) ==
    [k \in DOMAIN res \cup {"page_number"} |->
        IF k = "page_number" THEN n - 1 ELSE res[k]]

\* result["page_number"] = page_num   (line 427)
WithPageNumber(res, n) ==
    [k \in DOMAIN res \cup {"page_number"} |->
        IF k = "page_number" THEN n ELSE res[k]]

\* sum(r.get("qr_count", 0) for r in all_results)   (line 450)
RECURSIVE SumQrCount(_)
SumQrCount(rs) ==
    IF rs = <<>> THEN 0 ELSE Get(Head(rs), "qr_count", 0) + SumQrCount(Tail(rs))

\* Mutant of DocumentResult: qr_count is the number of pages with a payload.
DocumentResult_CountsPages(n, found, scannable, pages) ==
    [success |-> TRUE, total_pages |-> n, pages_with_qr |-> found,
     pages_scannable |-> scannable, qr_count |-> found,
     pages |-> pages,
     message |-> <<"Scanned", n, "pages, found QR codes in", found, "pages",
                   scannable, "scannable">>]

\* lines 445-453
DocumentResult(n, found, scannable, pages) ==
    [success |-> TRUE, total_pages |-> n, pages_with_qr |-> found,
     pages_scannable |-> scannable, qr_count |-> SumQrCount(pages),
     pages |-> pages,
     message |-> <<"Scanned", n, "pages, found QR codes in", found, "pages",
                   scannable, "scannable">>]

\* Mutant of NextPage: the loop does not move on to the next page.
NextPage_SamePage(pages, found, scannable) ==
    IF page_num < total_pages
    THEN /\ page_num' = page_num
         /\ pc' = "render"
         /\ UNCHANGED ret
    ELSE /\ ret' = DocumentResult(total_pages, found, scannable, pages)
         /\ pc' = "returned"
         /\ UNCHANGED page_num

\* The end of one iteration of the page loop and the loop's exit: either the
\* next page is rendered or the document result is returned (line 445).
NextPage(pages, found, scannable) ==
    IF page_num < total_pages
    THEN /\ page_num' = page_num + 1
         /\ pc' = "render"
         /\ UNCHANGED ret
    ELSE /\ ret' = DocumentResult(total_pages, found, scannable, pages)
         /\ pc' = "returned"
         /\ UNCHANGED page_num

\* Mutant of RecordPage: every page whose analysis succeeded counts as
\* scannable.
RecordPage_SuccessIsScannable(res) ==
    LET rec == WithPageNumber(res, page_num)
        found == total_qr_found + (IF Get(rec, "qr_found", FALSE) THEN 1 ELSE 0)
        scannable == total_scannable
                     + (IF Get(rec, "success", FALSE) THEN 1 ELSE 0)
    IN  /\ all_results' = Append(all_results, rec)
        /\ total_qr_found' = found
        /\ total_scannable' = scannable
        /\ NextPage(Append(all_results, rec), found, scannable)

\* lines 427-433: record the page's result and count it.
RecordPage(res) ==
    LET rec == WithPageNumber(res, page_num)
        found == total_qr_found + (IF Get(rec, "qr_found", FALSE) THEN 1 ELSE 0)
        scannable == total_scannable
                     + (IF Get(rec, "scannable", FALSE) THEN 1 ELSE 0)
    IN  /\ all_results' = Append(all_results, rec)
        /\ total_qr_found' = found
        /\ total_scannable' = scannable
        /\ NextPage(Append(all_results, rec), found, scannable)

\* lines 326-348: the import, the settings, the page count.
ScanPdfFile ==
    /\ pc = "start"
    /\ entry = "scan_pdf_file"
    /\ \/ /\ engines = NoValue
          /\ ret' = PdfErrorResult("pdf2image library not installed")
          /\ pc' = "returned"
          /\ UNCHANGED pdfVars
       \/ \E cfg \in CallConfigs :
            \/ \* pdfinfo_from_path raises
               /\ engines = NoValue
               /\ ret' = PdfErrorResult("exception")
               /\ pc' = "returned"
               /\ config' = cfg
               /\ UNCHANGED <<total_pages, page_num, retry_budget, all_results,
                              total_qr_found, total_scannable, rerenders, renders>>
            \/ \E pages \in PageCounts :
                 /\ config' = cfg
                 /\ total_pages' = pages
                 /\ IF pages <= 0
                    THEN /\ ret' = PdfErrorResult("Could not determine PDF page count")
                         /\ pc' = "returned"
                         /\ UNCHANGED <<retry_budget, page_num>>
                    ELSE /\ retry_budget' = cfg.max_retry_pages
                         /\ page_num' = 1
                         /\ pc' = "render"
                         /\ UNCHANGED ret
                 /\ UNCHANGED <<all_results, total_qr_found, total_scannable,
                                rerenders, renders>>
    /\ UNCHANGED <<callsVars, entry, load, caller, resVars, anVars, logVars>>

\* lines 350-392: render page page_num at base_dpi and hand it to
\* _analyze_qr_code; an exception of the renderer reaches line 461.
RenderPage ==
    /\ pc = "render"
    /\ renders' = Append(renders, page_num)
    /\ \E r \in Renderings(config.base_dpi) :
        CASE r.kind = "raise" ->
                /\ ret' = PdfErrorResult("exception")
                /\ pc' = "returned"
                /\ UNCHANGED <<caller, anVars, logVars, page_num, all_results,
                               total_qr_found, total_scannable>>
          [] r.kind = "empty" ->
                /\ all_results' = Append(all_results, RenderFailed(page_num))
                /\ NextPage(Append(all_results, RenderFailed(page_num)),
                            total_qr_found, total_scannable)
                /\ UNCHANGED <<caller, anVars, logVars, total_qr_found,
                               total_scannable>>
          [] OTHER ->
                /\ Enter(PageArray(r, config.max_side), "pdf_base")
                /\ UNCHANGED <<ret, page_num, all_results, total_qr_found,
                               total_scannable>>
    /\ UNCHANGED <<callsVars, entry, load, resVars, config, total_pages, retry_budget,
                   rerenders>>

\* Mutant of RetryWanted: the resolutions are not compared.
RetryWanted_IgnoresDpi(res, cfg, budget) ==
    /\ ~Get(res, "qr_found", FALSE)
    /\ budget > 0

\* Mutant of RetryWanted: only a page whose analysis succeeded is retried.
RetryWanted_SuccessOnly(res, cfg, budget) ==
    /\ Get(res, "success", FALSE)
    /\ ~Get(res, "qr_found", FALSE)
    /\ cfg.retry_dpi > cfg.base_dpi
    /\ budget > 0

\* line 395
RetryWanted(res, cfg, budget) ==
    /\ ~Get(res, "qr_found", FALSE)
    /\ cfg.retry_dpi > cfg.base_dpi
    /\ budget > 0

\* Mutant of AfterBase: an exception of the re-render ends the document scan.
AfterBase_ReRenderAborts ==
    /\ pc = "after_base"
    /\ IF ~RetryWanted(result, config, retry_budget)
       THEN /\ RecordPage(result)
            /\ UNCHANGED <<caller, anVars, logVars, retry_budget, rerenders>>
       ELSE /\ rerenders' = Append(rerenders, page_num)
            /\ \E r \in Renderings(config.retry_dpi) :
                 CASE r.kind = "raise" ->
                        /\ ret' = PdfErrorResult("exception")
                        /\ pc' = "returned"
                        /\ UNCHANGED <<caller, anVars, logVars, retry_budget,
                                       page_num, all_results, total_qr_found,
                                       total_scannable>>
                   [] r.kind = "empty" ->
                        /\ RecordPage(result)
                        /\ UNCHANGED <<caller, anVars, logVars, retry_budget>>
                   [] OTHER ->
                        /\ retry_budget' = retry_budget - 1
                        /\ Enter(PageArray(r, config.max_side), "pdf_retry")
                        /\ UNCHANGED <<ret, page_num, all_results,
                                       total_qr_found, total_scannable>>
    /\ UNCHANGED <<callsVars, entry, load, resVars, config, total_pages, renders>>

\* lines 394-433 after the base-resolution analysis: either the page is
\* recorded, or it is rendered again at retry_dpi.  The budget is charged
\* when the re-render returned an image (line 404); an empty list or an
\* exception (line 425) leaves the base result to be recorded.
AfterBase ==
    /\ pc = "after_base"
    /\ IF ~RetryWanted(result, config, retry_budget)
       THEN /\ RecordPage(result)
            /\ UNCHANGED <<caller, anVars, logVars, retry_budget, rerenders>>
       ELSE /\ rerenders' = Append(rerenders, page_num)
            /\ \E r \in Renderings(config.retry_dpi) :
                 IF r.kind \in {"raise", "empty"}
                 THEN /\ RecordPage(result)
                      /\ UNCHANGED <<caller, anVars, logVars, retry_budget>>
                 ELSE /\ retry_budget' = retry_budget - 1
                      /\ Enter(PageArray(r, config.max_side), "pdf_retry")
                      /\ UNCHANGED <<ret, page_num, all_results, total_qr_found,
                                     total_scannable>>
    /\ UNCHANGED <<callsVars, entry, load, resVars, config, total_pages, renders>>

\* Mutant of AfterRetry: the retry's result always replaces the base result.
AfterRetry_TakesRetry ==
    /\ pc = "after_retry"
    /\ RecordPage(result_retry)
    /\ UNCHANGED <<callsVars, entry, load, caller, resVars, anVars, logVars, config,
                   total_pages, retry_budget, rerenders, renders>>

\* lines 423-433 after the retry analysis: the retry's result replaces the
\* base result only when it found a payload.
AfterRetry ==
    /\ pc = "after_retry"
    /\ RecordPage(IF Get(result_retry, "qr_found", FALSE)
                  THEN result_retry ELSE result)
    /\ UNCHANGED <<callsVars, entry, load, caller, resVars, anVars, logVars, config,
                   total_pages, retry_budget, rerenders, renders>>

\* ------------------------------------------------------------ specification

Entries == {"scan_image_file", "scan_image_base64", "_analyze_qr_code",
            "scan_pdf_file"}

Init ==
    /\ entry \in Entries
    /\ pc = "start"
    /\ ret = NoValue
    /\ caller = "image"
    /\ result = NoValue
    /\ result_retry = NoValue
    /\ image = NoValue
    /\ qr_codes = <<>>
    /\ seen_qr = {}
    /\ variant = "enhanced"
    /\ angle = 1
    /\ cand = 1
    /\ upscaled = Unbound
    /\ thresh = Unbound
    /\ attempts = <<>>
    /\ threw = FALSE
    /\ last_raised = FALSE
    /\ gave = FALSE
    /\ load = "not yet"
    /\ config = NoValue
    /\ total_pages = 0
    /\ page_num = 0
    /\ retry_budget = 0
    /\ all_results = <<>>
    /\ total_qr_found = 0
    /\ total_scannable = 0
    /\ rerenders = <<>>
    /\ renders = <<>>
    /\ engines = NoValue
    /\ plan = "single"
    /\ scan = 1
    /\ parked = NoValue
    /\ done = <<NoValue>>
    /\ buffers = NoValue
    /\ overlapped = FALSE
    /\ via = "direct"
    /\ tmp = "none"

Next ==
    \/ ScanImageFile
    \/ ScanImageBase64
    \/ AnalyzeQrCode
    \/ RunDetection
    \/ Pass2
    \/ SingleDetect
    \/ PyzbarFallback
    \/ QReaderFallback
    \/ Assemble
    \/ ScanPdfFile
    \/ RenderPage
    \/ AfterBase
    \/ AfterRetry

Spec == Init /\ [][Next]_vars

\* No operation suspends: every handler is a plain synchronous call
\* (api_server.py lines 50-293 call the scanner without awaiting), so a call
\* that can take a step takes it.
SpecLive == Init /\ [][Next]_vars /\ WF_vars(Next)

\* ------------------------------------- several calls through one scanner

\* The calls a caller makes through the one QRCodeScanner object
\* (api_server.py line 20, server.py line 25):
\*   "twice"     call 1, then call 2, on the same buffer;
\*   "absent"    call 1 in a runtime without the qreader package, then call
\*               2 on the same buffer with the package installed and QReader
\*               decoding nothing;
\*   "together"  call 1 on buffer x and call 2 on buffer y, one after the
\*               other, then calls 3 (on x) and 4 (on y) with their steps
\*               interleaved.
Plans == {"twice", "absent", "together"}

\* Everything a call of a scanner method holds: arguments, locals, position.
Frame ==
    [entry |-> entry, pc |-> pc, ret |-> ret, load |-> load,
     caller |-> caller, result |-> result, result_retry |-> result_retry,
     image |-> image, qr_codes |-> qr_codes, seen_qr |-> seen_qr,
     variant |-> variant, angle |-> angle, cand |-> cand,
     upscaled |-> upscaled, thresh |-> thresh, attempts |-> attempts,
     threw |-> threw, last_raised |-> last_raised, gave |-> gave,
     config |-> config, total_pages |-> total_pages, page_num |-> page_num,
     retry_budget |-> retry_budget, all_results |-> all_results,
     total_qr_found |-> total_qr_found, total_scannable |-> total_scannable,
     rerenders |-> rerenders, renders |-> renders]

\* The method call i of the plan invokes.
EntryOf(i) ==
    IF IsDocument(BufferOf(i)) THEN "scan_pdf_file" ELSE "_analyze_qr_code"

\* Call i before it has run its first statement.
StartFrame(i) ==
    [entry |-> EntryOf(i), pc |-> "start", ret |-> NoValue,
     load |-> "not yet", caller |-> "image", result |-> NoValue,
     result_retry |-> NoValue, image |-> NoValue, qr_codes |-> FreshLocals.qr_codes,
     seen_qr |-> FreshLocals.seen_qr, variant |-> "enhanced", angle |-> 1, cand |-> 1,
     upscaled |-> Unbound, thresh |-> Unbound, attempts |-> <<>>,
     threw |-> FALSE, last_raised |-> FALSE, gave |-> FALSE,
     config |-> NoValue, total_pages |-> 0, page_num |-> 0,
     retry_budget |-> 0, all_results |-> <<>>, total_qr_found |-> 0,
     total_scannable |-> 0, rerenders |-> <<>>, renders |-> <<>>]

\* Mutant of Resume: the seen set lives on the scanner object, so a call that
\* resumes finds in it what the other call left there.
Resume_SeenShared(f) ==
    /\ entry' = f.entry
    /\ pc' = f.pc
    /\ ret' = f.ret
    /\ load' = f.load
    /\ caller' = f.caller
    /\ result' = f.result
    /\ result_retry' = f.result_retry
    /\ image' = f.image
    /\ qr_codes' = f.qr_codes
    /\ seen_qr' = seen_qr
    /\ variant' = f.variant
    /\ angle' = f.angle
    /\ cand' = f.cand
    /\ upscaled' = f.upscaled
    /\ thresh' = f.thresh
    /\ attempts' = f.attempts
    /\ threw' = f.threw
    /\ last_raised' = f.last_raised
    /\ gave' = f.gave
    /\ config' = f.config
    /\ total_pages' = f.total_pages
    /\ page_num' = f.page_num
    /\ retry_budget' = f.retry_budget
    /\ all_results' = f.all_results
    /\ total_qr_found' = f.total_qr_found
    /\ total_scannable' = f.total_scannable
    /\ rerenders' = f.rerenders
    /\ renders' = f.renders

\* The call whose frame is f runs: its locals are the ones it bound itself
\* (lines 124-129, 345-348).
Resume(f) ==
    /\ entry' = f.entry
    /\ pc' = f.pc
    /\ ret' = f.ret
    /\ load' = f.load
    /\ caller' = f.caller
    /\ result' = f.result
    /\ result_retry' = f.result_retry
    /\ image' = f.image
    /\ qr_codes' = f.qr_codes
    /\ seen_qr' = f.seen_qr
    /\ variant' = f.variant
    /\ angle' = f.angle
    /\ cand' = f.cand
    /\ upscaled' = f.upscaled
    /\ thresh' = f.thresh
    /\ attempts' = f.attempts
    /\ threw' = f.threw
    /\ last_raised' = f.last_raised
    /\ gave' = f.gave
    /\ config' = f.config
    /\ total_pages' = f.total_pages
    /\ page_num' = f.page_num
    /\ retry_budget' = f.retry_budget
    /\ all_results' = f.all_results
    /\ total_qr_found' = f.total_qr_found
    /\ total_scannable' = f.total_scannable
    /\ rerenders' = f.rerenders
    /\ renders' = f.renders

AttemptHits ==
    {{},
     {<<"multi", "enhanced", 90>>, <<"multi", "enhanced", 270>>},
     {<<"multi", "thresh", 180>>},
     {<<"single", "enhanced", 0>>},
     {<<"pyzbar", "thresh", 0>>},
     {<<"qreader", "color", 0>>}}

AttemptBads ==
    {{}, {<<"multi", "enhanced", 0>>, <<"pyzbar", "enhanced", 0>>}}

\* The buffers the caller scans: three images, two documents.
CallBuffers ==
    {[h |-> 1000, w |-> 1000, ndim |-> 3], [h |-> 1600, w |-> 1200, ndim |-> 3],
     [h |-> 2500, w |-> 1, ndim |-> 3], [pages |-> 1], [pages |-> 2]}

\* The pairs of buffers that calls 3 and 4 of "together" scan.
TogetherBuffers ==
    {[x |-> [h |-> 1000, w |-> 1000, ndim |-> 3],
      y |-> [h |-> 1600, w |-> 1200, ndim |-> 3]],
     [x |-> [pages |-> 2], y |-> [pages |-> 1]],
     [x |-> [pages |-> 2], y |-> [h |-> 1000, w |-> 1000, ndim |-> 3]]}

\* The runtimes: which packages are installed and how the engines answer.
Runtimes ==
    [hit : AttemptHits, bad : AttemptBads,
     blind : {{}, {[h |-> 1000, w |-> 1000, ndim |-> 3]},
              {[h |-> 800, w |-> 1000, ndim |-> 2]}},
     pyzbar_installed : BOOLEAN, qreader_installed : BOOLEAN]

\* The runtime of call 2 of "absent": the same engines with qreader
\* installed and decoding nothing.
WithIdleQReader(e) ==
    [e EXCEPT !.qreader_installed = TRUE,
              !.hit = @ \ {<<"qreader", "color", 0>>},
              !.bad = @ \ {<<"qreader", "color", 0>>}]

InitCalls ==
    /\ plan \in Plans
    /\ engines \in Runtimes
    /\ plan = "absent" => ~engines.qreader_installed
    /\ plan = "together" =>
            /\ engines.bad = {}
            /\ engines.pyzbar_installed
            /\ engines.qreader_installed
    /\ buffers \in [x : CallBuffers, y : CallBuffers]
    /\ IF plan = "together" THEN buffers \in TogetherBuffers
                             ELSE buffers.y = buffers.x
    /\ scan = 1
    /\ parked = NoValue
    /\ done = [i \in 1..4 |-> NoValue]
    /\ overlapped = FALSE
    /\ via = "direct"
    /\ tmp = "none"
    /\ entry = EntryOf(1)
    /\ pc = "start"
    /\ ret = NoValue
    /\ caller = "image"
    /\ result = NoValue
    /\ result_retry = NoValue
    /\ image = NoValue
    /\ qr_codes = <<>>
    /\ seen_qr = {}
    /\ variant = "enhanced"
    /\ angle = 1
    /\ cand = 1
    /\ upscaled = Unbound
    /\ thresh = Unbound
    /\ attempts = <<>>
    /\ threw = FALSE
    /\ last_raised = FALSE
    /\ gave = FALSE
    /\ load = "not yet"
    /\ config = NoValue
    /\ total_pages = 0
    /\ page_num = 0
    /\ retry_budget = 0
    /\ all_results = <<>>
    /\ total_qr_found = 0
    /\ total_scannable = 0
    /\ rerenders = <<>>
    /\ renders = <<>>

\* The caller receives what the running call returned.
Record ==
    /\ engines # NoValue
    /\ pc = "returned"
    /\ done[scan] = NoValue
    /\ done' = [done EXCEPT ![scan] = ret]
    /\ UNCHANGED <<scanVars, engines, plan, scan, parked, buffers, overlapped,
                   fileVars>>

\* The caller makes the next call of its plan; after call 2 of "together"
\* it starts calls 3 and 4 at once.
CallAgain ==
    /\ engines # NoValue
    /\ pc = "returned"
    /\ done[scan] # NoValue
    /\ parked = NoValue
    /\ scan < (IF plan = "together" THEN 3 ELSE 2)
    /\ scan' = scan + 1
    /\ Resume(StartFrame(scan + 1))
    /\ parked' = IF plan = "together" /\ scan = 2
                 THEN [scan |-> 4, frame |-> StartFrame(4)]
                 ELSE NoValue
    /\ engines' = IF plan = "absent" THEN WithIdleQReader(engines) ELSE engines
    /\ UNCHANGED <<plan, done, buffers, overlapped, fileVars>>

\* The running call is suspended and the other one runs.
Switch ==
    /\ parked # NoValue
    /\ parked.frame.pc # "returned"
    /\ pc = "returned" => done[scan] # NoValue
    /\ parked' = [scan |-> scan, frame |-> Frame]
    /\ scan' = parked.scan
    /\ Resume(parked.frame)
    /\ overlapped' = (overlapped \/ (/\ pc \notin {"start", "returned"}
                                      /\ parked.frame.pc # "start"))
    /\ UNCHANGED <<engines, plan, done, buffers, fileVars>>

NextCalls ==
    \/ AnalyzeQrCode
    \/ RunDetection
    \/ Pass2
    \/ SingleDetect
    \/ PyzbarFallback
    \/ QReaderFallback
    \/ Assemble
    \/ ScanPdfFile
    \/ RenderPage
    \/ AfterBase
    \/ AfterRetry
    \/ Record
    \/ CallAgain
    \/ Switch

SpecCalls == InitCalls /\ [][NextCalls]_vars


\* ------------------------------------------------- temporary PDF files

\* The callers of scan_pdf_file that hand it a temporary file of their own:
\* QRCodeScanner.scan_pdf_base64 (lines 469-508) and the handlers scan_pdf
\* and scan_pdf_url of api_server.py.
Wrappers == {"scan_pdf_base64", "/scan/pdf", "/scan/pdf-url"}

\* What a wrapper answers when it fails outside scan_pdf_file: the dict of
\* lines 502-507, or the HTTPException of its except handlers.
WrapperFailure(w, status) ==
    IF w = "scan_pdf_base64"
    THEN PdfErrorResult("exception")
    ELSE [raised |-> "HTTPException", status_code |-> status]

\* The status codes of the except handlers of a wrapper (api_server.py
\* lines 254-263 and 292-293).
FailureStatuses(w) == IF w = "/scan/pdf-url" THEN {400, 408, 503} ELSE {400}

\* The wrapper up to its call of scan_pdf_file: the bytes are obtained
\* (b64decode, file.read, requests.get), the file is created with
\* delete=False and the bytes are written to it inside the with block; an
\* exception of any of these goes to the wrapper's except handler, which
\* lies outside the try/finally that unlinks the file.
WriteTempFile ==
    /\ pc = "receive"
    /\ via \in Wrappers
    /\ \/ \* nothing to write: the input is refused, or no file can be created
          /\ \E status \in FailureStatuses(via) :
                ret' = WrapperFailure(via, status)
          /\ pc' = "responded"
          /\ UNCHANGED tmp
       \/ \* tmp.write raises after NamedTemporaryFile created the file
          /\ \E status \in FailureStatuses(via) :
                ret' = WrapperFailure(via, status)
          /\ pc' = "responded"
          /\ tmp' = "partial"
       \/ \* the with block ends with the file written and closed
          /\ pc' = "start"
          /\ tmp' = "written"
          /\ UNCHANGED ret
    /\ UNCHANGED <<entry, load, caller, resVars, anVars, logVars, pdfVars,
                   engines, plan, scan, parked, done, buffers, overlapped, via>>

\* The finally block around the call of scan_pdf_file: os.unlink(tmp_path),
\* an exception of which is passed over; then the wrapper answers with what
\* scan_pdf_file returned.
Unlink ==
    /\ pc = "returned"
    /\ via \in Wrappers
    /\ tmp' \in {"unlinked", tmp}
    /\ pc' = "responded"
    /\ UNCHANGED <<entry, ret, load, caller, resVars, anVars, logVars, pdfVars,
                   engines, plan, scan, parked, done, buffers, overlapped, via>>

\* A wrapper is called: scan_pdf_file will run on the wrapper's file.
InitTemp ==
    /\ entry = "scan_pdf_file"
    /\ via \in Wrappers
    /\ tmp = "none"
    /\ pc = "receive"
    /\ ret = NoValue
    /\ caller = "image"
    /\ result = NoValue
    /\ result_retry = NoValue
    /\ image = NoValue
    /\ qr_codes = <<>>
    /\ seen_qr = {}
    /\ variant = "enhanced"
    /\ angle = 1
    /\ cand = 1
    /\ upscaled = Unbound
    /\ thresh = Unbound
    /\ attempts = <<>>
    /\ threw = FALSE
    /\ last_raised = FALSE
    /\ gave = FALSE
    /\ load = "not yet"
    /\ config = NoValue
    /\ total_pages = 0
    /\ page_num = 0
    /\ retry_budget = 0
    /\ all_results = <<>>
    /\ total_qr_found = 0
    /\ total_scannable = 0
    /\ rerenders = <<>>
    /\ renders = <<>>
    /\ engines = NoValue
    /\ plan = "single"
    /\ scan = 1
    /\ parked = NoValue
    /\ done = <<NoValue>>
    /\ buffers = NoValue
    /\ overlapped = FALSE

NextTemp ==
    \/ WriteTempFile
    \/ ScanPdfFile
    \/ RenderPage
    \/ RunDetection
    \/ Pass2
    \/ SingleDetect
    \/ PyzbarFallback
    \/ QReaderFallback
    \/ Assemble
    \/ AfterBase
    \/ AfterRetry
    \/ Unlink

SpecTemp == InitTemp /\ [][NextTemp]_vars

\* ------------------------------------------------------------------ claims

ImageEntries == {"scan_image_file", "scan_image_base64", "_analyze_qr_code"}

\* An image entry point has returned what _analyze_qr_code gave it.
AnalysisReturned == entry \in ImageEntries /\ pc = "returned" /\ load = "image"

\* Every value _analyze_qr_code has returned that the state still holds.
AnalysisResults ==
    (IF AnalysisReturned THEN {ret} ELSE {})
    \cup ({result, result_retry} \ {NoValue})

Contents(r) ==
    IF "qr_codes" \in DOMAIN r
    THEN {r.qr_codes[i].content : i \in DOMAIN r.qr_codes}
    ELSE {}

Range(f) == {f[i] : i \in DOMAIN f}

\* C1: no record of a result of _analyze_qr_code has coordinate-style text
\* (text starting with '[' or made only of digits, whitespace and .,[]()-)
\* as its content, whichever pass produced it.
C1_NoCoordinateContent ==
    \A r \in AnalysisResults : \A c \in Contents(r) : ~LooksLikeCoordinates(c)

\* C2: no two records of one result of _analyze_qr_code have the same content.
C2_NoDuplicateContent ==
    \A r \in AnalysisResults :
        "qr_codes" \in DOMAIN r =>
            \A i, j \in DOMAIN r.qr_codes :
                r.qr_codes[i].content = r.qr_codes[j].content => i = j

\* C3: when no engine attempt of an analysis returned anything, the analysis
\* returns success=true, qr_found=false, scannable=false and no error field.
C3_NothingFoundIsSuccess ==
    (AnalysisReturned /\ ~gave) =>
        /\ ret.success = TRUE
        /\ ret.qr_found = FALSE
        /\ ret.scannable = FALSE
        /\ "error" \notin DOMAIN ret

\* No recorded page owes its payload to the base-resolution scan.
EveryBaseScanFailed ==
    \A i \in DOMAIN all_results :
        all_results[i].qr_found => all_results[i].page_number \in Range(rerenders)

\* C4: when every page finds nothing at the base resolution, at most
\* max_retry_pages pages are re-rendered in the whole document, whatever each
\* re-render gave; and once the budget is 0 no page is re-rendered.
C4_RetryBudgetBoundsRerenders ==
    [][/\ (config' # NoValue /\ EveryBaseScanFailed')
            => Len(rerenders') <= config'.max_retry_pages
       /\ retry_budget = 0 => rerenders' = rerenders]_vars

PdfReturned == entry = "scan_pdf_file" /\ pc = "returned"

\* C5: a successful document result has total_pages = N, exactly N entries
\* in pages with pages[i].page_number = i+1 (render failures included), and
\* pages_with_qr equal to the number of entries whose qr_found is true.
C5_DocumentAggregation ==
    (PdfReturned /\ ret.success) =>
        /\ ret.total_pages = total_pages
        /\ Len(ret.pages) = total_pages
        /\ \A i \in DOMAIN ret.pages : ret.pages[i].page_number = i
        /\ ret.pages_with_qr
             = Cardinality({i \in DOMAIN ret.pages : ret.pages[i].qr_found})

\* A returned document of several pages with a page that failed to render
\* and a page with a payload.
C5_Witness ==
    /\ PdfReturned
    /\ ret.success
    /\ ret.total_pages >= 2
    /\ \E i \in DOMAIN ret.pages : ret.pages[i] = RenderFailed(i)
    /\ \E i \in DOMAIN ret.pages : ret.pages[i].qr_found

LoadFailures == {"none", "raise", "b64error"}

\* C6: scan_image_file / scan_image_base64 on an input that does not load
\* return at once, with success=false, qr_found=false, scannable=false and
\* an error field, and no decoding engine has been invoked.
C6_LoadFailureResult ==
    (entry \in {"scan_image_file", "scan_image_base64"} /\ load \in LoadFailures) =>
        /\ pc = "returned"
        /\ ret.success = FALSE
        /\ ret.qr_found = FALSE
        /\ ret.scannable = FALSE
        /\ "error" \in DOMAIN ret
        /\ attempts = <<>>

\* An entry point has returned from a load that failed: a path that imread
\* cannot read, or a string that is not base64.
C6_Witness ==
    /\ pc = "returned"
    /\ \/ entry = "scan_image_base64" /\ load = "b64error"
       \/ entry = "scan_image_file" /\ load = "none"

\* C7: every call of scan_image_file, scan_image_base64 and _analyze_qr_code
\* ends by returning a dictionary with the keys success, qr_found and
\* scannable: the call never stops anywhere else than at its return.
C7_AlwaysWellFormed ==
    /\ \A r \in AnalysisResults \cup (IF entry \in ImageEntries /\ pc = "returned"
                                     THEN {ret} ELSE {}) :
          {"success", "qr_found", "scannable"} \subseteq DOMAIN r
    /\ (entry \in ImageEntries /\ pc # "returned") => ENABLED Next

\* An analysis that ended in its own exception handler has returned.
C7_Witness ==
    /\ AnalysisReturned
    /\ ret.success = FALSE
    /\ attempts # <<>>

\* C8: once an image is loaded, _analyze_qr_code never returns success=false.
C8_AnalysisNeverFails == \A r \in AnalysisResults : r.success = TRUE

\* The attempt made in this step raised.
AttemptRaised == Len(attempts') = Len(attempts) + 1 /\ last_raised'

\* Where the analysis stands after an attempt that returned nothing.
PositionAfterEmpty ==
    CASE pc = "sweep" ->
            IF angle < Len(angles) THEN <<"sweep", variant, angle + 1, cand>>
            ELSE IF variant = "enhanced" THEN <<"pass2", variant, 1, cand>>
            ELSE IF variant = "upscaled" /\ qr_codes = <<>>
                 THEN <<"sweep", "thresh", 1, cand>>
            ELSE <<"single", variant, 1, cand>>
      [] pc = "single" -> <<"pyzbar", variant, angle, cand>>
      [] pc = "pyzbar" ->
            IF cand < Len(Candidates) THEN <<"pyzbar", variant, angle, cand + 1>>
            ELSE <<"qreader", variant, angle, 1>>
      [] OTHER -> <<"assemble", variant, angle, cand>>

\* The analysis returns in this step, all its passes done.
AnalysisReturns == pc = "assemble" /\ pc' # "assemble"

Delivered ==
    CASE caller = "image" -> ret'
      [] caller = "pdf_base" -> result'
      [] OTHER -> result_retry'

\* C9: an engine attempt that raises counts as zero payloads: the payloads
\* accepted before it are kept, the analysis goes on exactly where it would
\* after an empty answer (every later attempt that would have run still
\* runs), and the result assembled at the end has success=true.
C9_EngineFailureIsLocal ==
    [][/\ AttemptRaised =>
            /\ qr_codes' = qr_codes
            /\ <<pc', variant', angle', cand'>> = PositionAfterEmpty
       /\ (AnalysisReturns /\ threw) => Delivered.success = TRUE]_vars

\* C10: a page that fails to rasterize at the base resolution is recorded
\* with qr_found=false and a message, every later page is still rendered,
\* and the document result has success=true.
C10_RenderFailureContinues ==
    (PdfReturned /\ renders # <<>>) =>
        /\ ret.success = TRUE
        /\ renders = [i \in 1..total_pages |-> i]
        /\ Len(ret.pages) = total_pages

\* scan_pdf_file got past its settings and holds no positive page count:
\* pdfinfo_from_path raised, or reported a count <= 0 (lines 338-341).
PageCountUndetermined ==
    /\ entry = "scan_pdf_file"
    /\ pc # "start"
    /\ config # NoValue
    /\ total_pages <= 0

\* C11: when the page count cannot be determined, scan_pdf_file returns
\* success=false with an error string, and no page has been rendered,
\* analyzed or re-rendered.
C11_NoPageCountFailsFast ==
    PageCountUndetermined =>
        /\ pc = "returned"
        /\ ret.success = FALSE
        /\ "error" \in DOMAIN ret
        /\ renders = <<>>
        /\ rerenders = <<>>
        /\ attempts = <<>>
        /\ all_results = <<>>

\* The page info query reported no pages and the call has returned.
C11_Witness ==
    /\ PageCountUndetermined
    /\ pc = "returned"
    /\ ret.error = "Could not determine PDF page count"

\* _analyze_qr_code returns in this step, from its last statement or from
\* its exception handler.
AnalysisEnds ==
    /\ pc \in {"assemble", "pass2"}
    /\ pc' \in {"returned", "after_base", "after_retry"}

\* C12: every result of _analyze_qr_code has qr_found = (qr_count > 0), an
\* absent qr_count read as 0, and scannable = qr_found; qr_count is the
\* number of payloads accepted when the analysis returned.
C12_FlagsFollowCount ==
    [][AnalysisEnds =>
          /\ Delivered.qr_found = (Get(Delivered, "qr_count", 0) > 0)
          /\ Delivered.scannable = Delivered.qr_found
          /\ Get(Delivered, "qr_count", 0) = Len(qr_codes)
          /\ Delivered.qr_found = (qr_codes # <<>>)]_vars

\* An analysis has returned two records.
C12_Witness ==
    /\ AnalysisReturned
    /\ ret.qr_found
    /\ ret.qr_count = 2
    /\ Len(ret.qr_codes) = 2

\* C13: two calls of _analyze_qr_code on the same buffer, with engines that
\* answer by their input alone, return identical results (same count, same
\* contents, same order), and no call writes into the caller's buffer.
C13_SecondCallSameResult ==
    /\ [](plan = "twice" /\ done[2] # NoValue => done[2] = done[1])
    /\ [][buffers' = buffers]_vars

\* Both calls have returned the one record of a payload that the engine
\* decoded at two rotation angles.
C13_Witness ==
    /\ plan = "twice"
    /\ done[1] # NoValue
    /\ done[2] # NoValue
    /\ ~IsDocument(buffers.x)
    /\ done[2].qr_found
    /\ done[2].qr_count = 1
    /\ Len(attempts) = Len(angles)

\* C14: in a runtime without the qreader package _analyze_qr_code returns
\* exactly what it returns when the package is installed and QReader decodes
\* nothing; the absence puts no error and no success=false in the result.
C14_AbsentQReaderIsIdle ==
    (plan = "absent" /\ done[2] # NoValue) => done[1] = done[2]

\* The second call has gone through the QReader pass, which the first call
\* had to skip, and both have returned.
C14_Witness ==
    /\ plan = "absent"
    /\ done[2] # NoValue
    /\ ~IsDocument(buffers.x)
    /\ done[1].success
    /\ ~done[1].qr_found
    /\ \E i \in DOMAIN attempts : attempts[i][1] = "qreader"

\* C15: two scans whose steps interleave through the one scanner object each
\* return what the same scan returns when it runs alone: the accepted
\* payloads, the seen set and the retry budget belong to the call.
C15_InterleavedScansAsAlone ==
    /\ (plan = "together" /\ done[3] # NoValue) => done[3] = done[1]
    /\ (plan = "together" /\ done[4] # NoValue) => done[4] = done[2]

\* Two scans that each accepted a payload, one of them of a document whose
\* first page was re-rendered, have returned after running in mid-flight of
\* each other.
C15_Witness ==
    /\ plan = "together"
    /\ overlapped
    /\ done[3] # NoValue
    /\ done[4] # NoValue
    /\ done[3] # done[4]
    /\ Get(done[3], "qr_count", 0) > 0
    /\ Get(done[4], "qr_count", 0) > 0
    /\ IsDocument(buffers.x)
    /\ rerenders # <<>> \/ parked.frame.rerenders # <<>>

\* An engine is invoked in this step.
EngineInvoked == Len(attempts') = Len(attempts) + 1

\* C16: once a payload has been accepted, no engine is invoked any more in
\* that analysis: not for the remaining angles of the variant, not for a
\* later variant, not by a later engine.
C16_StopsAtFirstPayload ==
    [][qr_codes # <<>> => ~EngineInvoked]_vars

\* The pass an attempt of the log belongs to, in the order of the source.
PassOf(attempt) ==
    CASE attempt[1] = "multi" /\ attempt[2] = "enhanced" -> 1
      [] attempt[1] = "multi" /\ attempt[2] = "upscaled" -> 2
      [] attempt[1] = "multi" /\ attempt[2] = "thresh" -> 3
      [] attempt[1] = "single" -> 4
      [] attempt[1] = "pyzbar" -> 5
      [] attempt[1] = "qreader" -> 6

\* C17: the passes run in the order enhanced sweep, upscaled sweep,
\* thresholded sweep, single detect, pyzbar, QReader; the first attempt of an
\* analysis belongs to the enhanced sweep, every later pass starts only
\* with no payload accepted, and QReader is invoked only with none accepted.
C17_PassOrder ==
    [][EngineInvoked =>
          LET new == attempts'[Len(attempts')]
          IN  /\ attempts = <<>> => PassOf(new) = 1
              /\ attempts # <<>> =>
                    /\ PassOf(attempts[Len(attempts)]) <= PassOf(new)
                    /\ PassOf(attempts[Len(attempts)]) < PassOf(new)
                          => qr_codes = <<>>
              /\ PassOf(new) = 6 => qr_codes = <<>>]_vars

\* An analysis has gone through every pass: three sweeps of four angles,
\* the single detect, pyzbar on both candidates, QReader.
C17_Witness ==
    /\ pc = "assemble"
    /\ Len(attempts) = 3 * Len(angles) + 4
    /\ {PassOf(attempts[i]) : i \in DOMAIN attempts} = 1..6

\* C18: every content of a result of _analyze_qr_code went through the
\* validator: it is trimmed, non-empty, and has a letter or starts with
\* http://, https:// or ftp://; digits alone are never reported.
C18_EveryContentValidated ==
    \A r \in AnalysisResults : \A c \in Contents(r) :
        /\ c # <<>>
        /\ Strip(c, SpaceChars) = c
        /\ HasLetters(c) \/ StartsWithScheme(c)

\* C19: QReader is invoked only on an image whose larger dimension is within
\* a ceiling; ThreshCeiling is the largest dimension bound _analyze_qr_code
\* has, so no bound of the function gates the call if this one does not.
C19_QReaderGatedBySize ==
    (pc = "assemble" /\ \E i \in DOMAIN attempts : PassOf(attempts[i]) = 6)
        => Max(image.h, image.w) <= ThreshCeiling

\* C20: the retry budget goes down by exactly one with every re-render,
\* whatever the re-render gives, changes at no other step of the page loop,
\* and stays within 0..max_retry_pages.
C20_BudgetChargedPerRetry ==
    [][(entry = "scan_pdf_file" /\ pc # "start") =>
          /\ rerenders' # rerenders => retry_budget' = retry_budget - 1
          /\ rerenders' = rerenders => retry_budget' = retry_budget
          /\ retry_budget' \in 0..config.max_retry_pages]_vars

\* The page of this step is rendered again at the retry resolution.
ReRendered == rerenders' # rerenders

\* C21: a page is re-rendered only when its base-resolution scan found no
\* payload, the retry budget is positive and the retry resolution is above
\* the base resolution; with retry_dpi <= base_dpi nothing is re-rendered.
C21_RetryOnlyWhenAllThreeHold ==
    [][(entry = "scan_pdf_file" /\ pc # "start") =>
          /\ ReRendered =>
                /\ pc = "after_base"
                /\ Contents(result) = {}
                /\ ~Get(result, "qr_found", FALSE)
                /\ retry_budget > 0
                /\ config.retry_dpi > config.base_dpi
          /\ config.retry_dpi <= config.base_dpi => rerenders' = <<>>]_vars

\* A document has returned after one page was re-rendered and another, with
\* a payload at the base resolution and budget left, was not.
C21_Witness ==
    /\ PdfReturned
    /\ ret.success
    /\ retry_budget > 0
    /\ rerenders # <<>>
    /\ \E i \in DOMAIN all_results :
          /\ all_results[i].qr_found
          /\ \A j \in DOMAIN rerenders : rerenders[j] # i

\* The record appended to all_results in this step.
Recorded == all_results'[Len(all_results')]

\* rec is res with the page number n set and nothing else changed.
IsRecordOf(rec, res, n) ==
    /\ DOMAIN rec = DOMAIN res \cup {"page_number"}
    /\ rec.page_number = n
    /\ \A k \in DOMAIN res \ {"page_number"} : rec[k] = res[k]

\* The re-render of this step gave no image to analyze: it raised or
\* returned an empty list.
ReRenderGaveNothing ==
    pc = "after_base" /\ ReRendered /\ pc' \in {"render", "returned"}

\* C22: the result recorded for a retried page is the retry's result exactly
\* when the retry found a payload, and the unchanged base result otherwise;
\* one result is recorded per page, never with fewer payloads than the base
\* result had.
C22_RetryReplacesOnlyOnPayload ==
    [][(entry = "scan_pdf_file" /\ (pc = "after_retry" \/ ReRenderGaveNothing)) =>
          /\ Len(all_results') = Len(all_results) + 1
          /\ Len(all_results') = page_num
          /\ IF pc = "after_retry" /\ Contents(result_retry) # {}
             THEN IsRecordOf(Recorded, result_retry, page_num)
             ELSE IsRecordOf(Recorded, result, page_num)
          /\ pc = "after_retry" =>
                (Recorded.qr_found <=> Get(result_retry, "qr_found", FALSE))
          /\ Get(Recorded, "qr_count", 0) >= Get(result, "qr_count", 0)]_vars

\* A document has returned with two pages whose re-renders were both
\* analyzed: one recorded with the retry's payload, one without a payload.
C22_Witness ==
    /\ PdfReturned
    /\ ret.success
    /\ Len(rerenders) = 2
    /\ retry_budget = config.max_retry_pages - 2
    /\ all_results[rerenders[1]].qr_found
    /\ ~all_results[rerenders[2]].qr_found

\* The number of payload records of a recorded page.
RecordsOf(page) ==
    IF "qr_count" \in DOMAIN page THEN page.qr_count ELSE 0

\* The records of the first n pages of a document result, added up.
RECURSIVE RecordsUpTo(_, _)
RecordsUpTo(pages, n) ==
    IF n = 0 THEN 0 ELSE RecordsUpTo(pages, n - 1) + RecordsOf(pages[n])

\* C23: in a successful document result qr_count is the sum of the qr_count
\* of the recorded pages, a page without qr_count counting 0 and a retried
\* page counting once, and pages_scannable is the number of recorded pages
\* whose scannable is true.
C23_CountsAreSums ==
    (PdfReturned /\ ret.success) =>
        /\ ret.qr_count = RecordsUpTo(ret.pages, Len(ret.pages))
        /\ ret.pages_scannable =
              Cardinality({i \in DOMAIN ret.pages :
                             Get(ret.pages[i], "scannable", FALSE)})

\* A document has returned with a page that failed to render, a retried
\* page, and more payload records than pages with a payload.
C23_Witness ==
    /\ PdfReturned
    /\ ret.success
    /\ rerenders # <<>>
    /\ \E i \in DOMAIN ret.pages : "qr_count" \notin DOMAIN ret.pages[i]
    /\ ret.qr_count > ret.pages_with_qr

\* The payloads of a list in order of their first occurrence.
RECURSIVE FirstOccurrences(_)
FirstOccurrences(codes) ==
    IF codes = <<>> THEN <<>>
    ELSE LET front == FirstOccurrences(SubSeq(codes, 1, Len(codes) - 1))
             last == codes[Len(codes)]
         IN  IF last \in Range(front) THEN front ELSE Append(front, last)

\* C24: in every result of _analyze_qr_code with qr_found true, qr_codes
\* lists the accepted payloads in order of first acceptance, each once;
\* record i has index i, its length is the length of its content, its
\* scannable and valid are true, and qr_count is the number of records.
C24_RecordsListFirstOccurrences ==
    [][(AnalysisEnds /\ Delivered.qr_found) =>
          LET records == Delivered.qr_codes
          IN  /\ [i \in DOMAIN records |-> records[i].content]
                    = FirstOccurrences(qr_codes)
              /\ Delivered.qr_count = Len(records)
              /\ \A i \in DOMAIN records :
                    /\ records[i].qr_index = i - 1
                    /\ records[i].length = Len(records[i].content)
                    /\ records[i].scannable
                    /\ records[i].valid]_vars

\* Each element of a log of page numbers is above the one before it.
Increasing(log) == \A i \in 1..(Len(log) - 1) : log[i] < log[i + 1]

\* An analysis of a page starts in this step.
PageAnalysisStarts == pc \in {"render", "after_base"} /\ pc' = "sweep"

\* C25: a scan_pdf_file call returns; pages are rendered in increasing
\* page-number order, one page per render call, each page at most once at
\* the base resolution and at most once at the retry resolution, and each
\* analysis of a page is of an image rendered in the same step.
C25_DocumentScanTerminates ==
    /\ [][entry = "scan_pdf_file" =>
            /\ Increasing(renders') /\ Increasing(rerenders')
            /\ Len(renders') + Len(rerenders')
                  <= Len(renders) + Len(rerenders) + 1
            /\ renders' # renders =>
                  /\ renders' = Append(renders, page_num)
                  /\ page_num = Len(renders')
            /\ ReRendered =>
                  /\ rerenders' = Append(rerenders, page_num)
                  /\ renders[Len(renders)] = page_num
            /\ PageAnalysisStarts => (renders' # renders \/ ReRendered)
            /\ page_num' \in {page_num, page_num + 1}
            /\ page_num' <= total_pages']_vars
    /\ <>(entry = "scan_pdf_file" => pc = "returned")

\* A document of MaxPages pages has returned with every page rendered and
\* one of them rendered twice.
C25_Witness ==
    /\ PdfReturned
    /\ ret.success
    /\ total_pages = MaxPages
    /\ renders = [i \in 1..MaxPages |-> i]
    /\ rerenders # <<>>

\* The page loop goes on after this step: to the next page, or, after the
\* last page, to the return of the document result.
ScanGoesOn ==
    IF page_num < total_pages
    THEN pc' = "render" /\ page_num' = page_num + 1
    ELSE /\ pc' = "returned"
         /\ ret'.success
         /\ Len(ret'.pages) = total_pages

RetryFailed ==
    \/ ReRenderGaveNothing
    \/ pc = "after_retry" /\ ~result_retry.success

\* C27: a failed retry of a page (the re-render raises or returns no image,
\* or its analysis fails) leaves the page's base result as it was and does
\* not end the document: the base result is recorded with the page number
\* and the scan goes on.
C27_FailedRetryKeepsBase ==
    [][(entry = "scan_pdf_file" /\ RetryFailed) =>
          /\ result' = result
          /\ Len(all_results') = page_num
          /\ IsRecordOf(Recorded, result, page_num)
          /\ SubSeq(all_results', 1, Len(all_results)) = all_results
          /\ ScanGoesOn]_vars

\* A document has returned success after one re-render gave no image and
\* the analysis of another re-rendered page failed.
C27_Witness ==
    /\ PdfReturned
    /\ ret.success
    /\ Len(rerenders) = 2
    /\ retry_budget = config.max_retry_pages - 1
    /\ result_retry # NoValue
    /\ ~result_retry.success
    /\ \A i \in Range(rerenders) : ~ret.pages[i].qr_found

\* The positions inside _analyze_qr_code.
AnalysisPcs == {"sweep", "pass2", "single", "pyzbar", "qreader", "assemble"}

\* s is an initial part of t.
IsPrefix(s, t) == Len(s) <= Len(t) /\ SubSeq(t, 1, Len(s)) = s

\* C28: inside one analysis the accepted list only grows, and every engine
\* attempt made while it is non-empty belongs to the pass of the attempt
\* before it: once a pass has accepted a payload no later pass runs, so all
\* records of a result come from one pass.
C28_RecordsFromOnePass ==
    [][(pc \in AnalysisPcs /\ pc' \in AnalysisPcs) =>
          /\ IsPrefix(qr_codes, qr_codes')
          /\ qr_codes' # qr_codes => EngineInvoked
          /\ (EngineInvoked /\ qr_codes # <<>>) =>
                PassOf(attempts'[Len(attempts')])
                    = PassOf(attempts[Len(attempts)])]_vars

\* An analysis is about to return two payloads, both accepted by the
\* upscaled sweep after the enhanced sweep accepted none.
C28_Witness ==
    /\ pc = "assemble"
    /\ Len(qr_codes) = 2
    /\ Len(attempts) = 2 * Len(angles)
    /\ PassOf(attempts[Len(attempts)]) = 2

\* C29: in a successful document result pages_scannable = pages_with_qr,
\* pages_with_qr <= total_pages and qr_count >= pages_with_qr: every
\* recorded page has scannable equal to qr_found, and at least one record
\* when qr_found is true.
C29_DocumentCountsAgree ==
    (PdfReturned /\ ret.success) =>
        /\ ret.pages_scannable = ret.pages_with_qr
        /\ ret.pages_with_qr <= ret.total_pages
        /\ ret.qr_count >= ret.pages_with_qr
        /\ \A i \in DOMAIN ret.pages :
              /\ ret.pages[i].scannable = ret.pages[i].qr_found
              /\ ret.pages[i].qr_found => RecordsOf(ret.pages[i]) >= 1

\* A document has returned with a page with a payload, a page that failed
\* to render and a page whose analysis failed.
C29_Witness ==
    /\ PdfReturned
    /\ ret.success
    /\ ret.pages_with_qr = 1
    /\ \E i \in DOMAIN ret.pages :
          ret.pages[i].success /\ "qr_count" \notin DOMAIN ret.pages[i]
    /\ \E i \in DOMAIN ret.pages : ~ret.pages[i].success

\* A wrapper of scan_pdf_file has answered its caller.
WrapperReturned == via \in Wrappers /\ pc = "responded"

\* C30: when a wrapper of scan_pdf_file returns, on success or on failure,
\* the temporary PDF file it created no longer exists.
C30_TempFileGone ==
    WrapperReturned => tmp \in {"none", "unlinked"}

====
